---- MODULE Spec2Model ----
(***************************************************************************)
(* Model of payton's collision detector (payton/scene/collision.py) and of *)
(* the geometric primitives it uses (payton/math/geometry.py).             *)
(*                                                                         *)
(* Coordinates, radii and distances are integers.  Objects are placed on   *)
(* the x axis, so that every distance between two origins is an exact      *)
(* integer and `pyrr.vector3.length` is modelled without rounding.         *)
(* Python sequences are 0-based; At(s, k) reads s[k].                      *)
(***************************************************************************)
EXTENDS Integers, Sequences, FiniteSets, TLC

\* ------------------------------------------------------------------ bounds
MaxRoster == 3      \* longest roster the detector is driven to
MaxCoord  == 7      \* largest x coordinate of an object's origin
MaxRay    == 3      \* largest coordinate and radius of a ray cast

\* ------------------------------------------------------------ the objects
\* Identities of the collidable objects.  Each has a fixed shape (class,
\* bounding radius, index buffer, vertex buffer); only its position moves.
Objs == {"S1", "S2", "M1", "M2", "M3", "M4"}

\* The objects handed to the detector under test, and where the scene puts
\* each of them: M1 stays at the origin, the others are moved onto it, so
\* as to overlap it, or away from it.
Tracked == {"S1", "M1", "M2"}
Places(o) == CASE o = "S1" -> {0, 3, 7}
               [] o = "M2" -> {0, 7}
               [] OTHER    -> {0}

Octa(r) == << r,0,0,  0,r,0,  0,0,r,  0-r,0,0 >>

Shape(o) ==
  CASE o = "S1" -> [isSphere |-> TRUE,  bounding_radius |-> 1,
                    _indices |-> <<0,1,2, 1,3,2>>, _vertices |-> Octa(1)]
    [] o = "S2" -> [isSphere |-> TRUE,  bounding_radius |-> 2,
                    _indices |-> <<0,1,2, 1,3,2>>, _vertices |-> Octa(2)]
    [] o = "M1" -> [isSphere |-> FALSE, bounding_radius |-> 3,
                    _indices |-> <<0,1,2>>,
                    _vertices |-> << 0,0,0,  3,0,0,  0,3,0 >>]
    [] o = "M2" -> [isSphere |-> FALSE, bounding_radius |-> 3,
                    _indices |-> <<0,1,2, 3,4,5>>,
                    _vertices |-> << 0,0,2,  1,0,2,  0,1,2,
                                     1,1,0-1,  1,1,1,  2,2,1 >>]
    [] o = "M3" -> [isSphere |-> FALSE, bounding_radius |-> 1,
                    _indices |-> <<0,1,2>>,
                    _vertices |-> << 0,0,1,  1,0,0,  0,1,0 >>]
    [] o = "M4" -> [isSphere |-> FALSE, bounding_radius |-> 3,
                    _indices |-> <<2,1,0>>,
                    _vertices |-> << 1,0,2,  1,0-1,0-1,  1,1,0-1 >>]

At(s, k) == s[k + 1]
InRange(s, k) == k >= 0 /\ k < Len(s)

\* ------------------------------------------------------------ vector math
Sub(a, b) == << a[1] - b[1], a[2] - b[2], a[3] - b[3] >>
Dot(a, b) == a[1] * b[1] + a[2] * b[2] + a[3] * b[3]
Cross(a, b) == << a[2] * b[3] - a[3] * b[2],
                  a[3] * b[1] - a[1] * b[3],
                  a[1] * b[2] - a[2] * b[1] >>

\* Signed volume of the tetrahedron (a, b, c, d), times six.
Orient(a, b, c, d) == Dot(Cross(Sub(b, a), Sub(c, a)), Sub(d, a))

\* Exact square root of a perfect square (the model only meets those).
Isqrt(s) == CHOOSE d \in 0..(s + 1) : d * d = s

\* payton.math.geometry.distance: the length of v2 - v1.
distance(v1, v2) == Isqrt(Dot(Sub(v2, v1), Sub(v2, v1)))

\* payton.math.geometry.point_project: only three components are read.
point_project(p, origin, direction) ==
  direction[1] * (p[1] - origin[1])
    + direction[2] * (p[2] - origin[2])
    + direction[3] * (p[3] - origin[3])

\* payton.math.geometry.combine, over the four homogeneous components.
\* The float32 result holds the model's small integers exactly.
combine(v1, v2, f1, f2) ==
  << f1 * v1[1] + f2 * v2[1], f1 * v1[2] + f2 * v2[2],
     f1 * v1[3] + f2 * v2[3], f1 * v1[4] + f2 * v2[4] >>

\* v2 - v1 of two 4-component arrays, and pyrr's length of such an array:
\* the square root of the sum of the squares of all its components.
Sub4(a, b) == << a[1] - b[1], a[2] - b[2], a[3] - b[3], a[4] - b[4] >>
SquareSum(v) == v[1] * v[1] + v[2] * v[2] + v[3] * v[3] + v[4] * v[4]
length(v) == Isqrt(SquareSum(v))

\* payton.math.geometry.distance2: the length of v2 - v1, squared.
Squared(l) == l * l
distance2(v1, v2) == Squared(length(Sub4(v2, v1)))

\* Variant: the projection is used as it is.
NoClamp(proj) == proj

\* Lines 37-38 of raycast_sphere_intersect.
Clamp(proj) == IF proj < 0 THEN 0 ELSE proj

\* Variant: a distance equal to the radius counts.
AtMost(dist, sphere_radius) == dist <= sphere_radius * sphere_radius

\* Line 41 of raycast_sphere_intersect.
Inside(dist, sphere_radius) == dist < sphere_radius * sphere_radius

\* What raycast_sphere_intersect returns, with the ray parameter and the
\* point it measured from.
RayVerdict(res, proj, vc) == [res |-> res, proj |-> proj, vc |-> vc]
RayMeasured(sphere_center, sphere_radius, proj, vc) ==
  RayVerdict(Inside(distance2(sphere_center, vc), sphere_radius), proj, vc)
RayFrom(start, vector, sphere_center, sphere_radius, proj) ==
  RayMeasured(sphere_center, sphere_radius, proj,
              combine(start, vector, 1, proj))

\* payton.math.geometry.raycast_sphere_intersect
raycast_sphere_intersect(start, vector, sphere_center, sphere_radius) ==
  RayFrom(start, vector, sphere_center, sphere_radius,
          Clamp(point_project(sphere_center, start, vector)))

\* The segment [p0,p1] against the triangle (t0,t1,t2): the end points lie
\* strictly on opposite sides of the triangle's plane and the segment's line
\* passes through the triangle, its boundary included.  Degenerate segments
\* and triangles, and coplanar segments, give FALSE.
OppositeSides(s0, s1) == s0 * s1 < 0
SameTurn(a, b, c) == \/ (a >= 0 /\ b >= 0 /\ c >= 0)
                     \/ (a <= 0 /\ b <= 0 /\ c <= 0)

line_triangle_intersect(p0, p1, t0, t1, t2) ==
  /\ OppositeSides(Orient(t0, t1, t2, p0), Orient(t0, t1, t2, p1))
  /\ SameTurn(Orient(p0, p1, t0, t1), Orient(p0, p1, t1, t2),
              Orient(p0, p1, t2, t0))

VARIABLES
  objects,    \* Collision.objects: the roster, a list of object identities
  _pairs,     \* Collision._pairs: the pair cache, a list of 2-element lists
  callback,   \* Collision.callback: TRUE iff the value given is callable
  pos,        \* each object's origin (its x coordinate), owned by the scene
  last,       \* the name of the last operation performed
  streak,     \* how many checks in a row have just run (2: two or more)
  raised,     \* the exception the last operation ended with, or "none"
  reported,   \* the arguments of every callback call of the last operation
  tested,     \* the _test calls of the last operation, in order, with outcomes
  rearmed,    \* the cached pairs resolved since the last check
  probe       \* a direct call of _test or of raycast_sphere_intersect: its
              \* arguments and its outcome

vars == << objects, _pairs, callback, pos, last, streak, raised, reported,
           tested, rearmed, probe >>

\* --------------------------------------------------------- classification
\* obj._model_matrix[3] after update_matrix(): the object's world origin.
Origin(o) == << pos[o], 0, 0 >>

_dist(obj1, obj2) == distance(Origin(obj1), Origin(obj2))

\* Variant: touching spheres do not count.
BoundingStrict(obj1, obj2) ==
  _dist(obj1, obj2)
    < Shape(obj1).bounding_radius + Shape(obj2).bounding_radius

_bounding_sphere_collision(obj1, obj2) ==
  LET dist == _dist(obj1, obj2)
      total_radius == Shape(obj1).bounding_radius + Shape(obj2).bounding_radius
  IN  dist <= total_radius

\* Variant: only obj1 containing obj2 counts.
ContainsOneWay(obj1, obj2) ==
  Shape(obj1).bounding_radius > _dist(obj1, obj2) + Shape(obj2).bounding_radius

_sphere_in_sphere_collision(obj1, obj2) ==
  LET dist == _dist(obj1, obj2)
  IN  IF Shape(obj1).bounding_radius > dist + Shape(obj2).bounding_radius
        THEN TRUE
      ELSE IF Shape(obj2).bounding_radius > dist + Shape(obj1).bounding_radius
        THEN TRUE
      ELSE FALSE

\* The three coordinates of vertex number i of a flat vertex buffer.
Vertex(vs, i) == << At(vs, i * 3), At(vs, i * 3 + 1), At(vs, i * 3 + 2) >>
VertexOk(vs, i) == InRange(vs, i * 3) /\ InRange(vs, i * 3 + 2)

\* The triangle with the vertex numbers t, and whether reading it succeeds.
Triangle(vs, t) == << Vertex(vs, t[1]), Vertex(vs, t[2]), Vertex(vs, t[3]) >>
TriangleOk(vs, t) ==
  VertexOk(vs, t[1]) /\ VertexOk(vs, t[2]) /\ VertexOk(vs, t[3])

\* The least element of a set of naturals, 0 for the empty set.
Least(S) == IF S = {} THEN 0 ELSE CHOOSE n \in S : \A m \in S : n <= m

\* The nine buffer positions Triangle(vs, t) reads, in order.
Positions(t) == << t[1] * 3, t[1] * 3 + 1, t[1] * 3 + 2,
                  t[2] * 3, t[2] * 3 + 1, t[2] * 3 + 2,
                  t[3] * 3, t[3] * 3 + 1, t[3] * 3 + 2 >>

\* The vertex reads of Triangle(vs, t) that succeed before the first one
\* that is out of range (all nine if none is).
ReadsBefore(first) == IF first = 0 THEN 9 ELSE first - 1
VertexReads(vs, t) ==
  ReadsBefore(Least({ n \in 1..9 : ~ InRange(vs, Positions(t)[n]) }))

\* The six segment tests of the triangle pair (p, q), in the order of the
\* code: the edges of p against q, then the edges of q against p.
SixTests(p, q) ==
  << [seg |-> << p[1], p[2] >>, tri |-> q],
     [seg |-> << p[1], p[3] >>, tri |-> q],
     [seg |-> << p[2], p[3] >>, tri |-> q],
     [seg |-> << q[1], q[2] >>, tri |-> p],
     [seg |-> << q[1], q[3] >>, tri |-> p],
     [seg |-> << q[2], q[3] >>, tri |-> p] >>

Hit(t) == line_triangle_intersect(t.seg[1], t.seg[2],
                                  t.tri[1], t.tri[2], t.tri[3])

\* The number of the first of the tests that is positive, 0 if none is.
FirstHit(six) == Least({ n \in 1..Len(six) : Hit(six[n]) })

\* The vertex numbers of triangle i of obj1 (lines 73-75).
Indices1(obj1, i) ==
  << At(Shape(obj1)._indices, i * 3),
     At(Shape(obj1)._indices, i * 3 + 1),
     At(Shape(obj1)._indices, i * 3 + 2) >>

\* The buffer the third vertex number of obj2's triangle is read from
\* (line 93).
ThirdIndexBuffer(obj1, obj2) == Shape(obj1)._indices

\* The vertex numbers of triangle j of obj2 (lines 91-93).
Indices2(obj1, obj2, j) ==
  << At(Shape(obj2)._indices, j * 3),
     At(Shape(obj2)._indices, j * 3 + 1),
     At(ThirdIndexBuffer(obj1, obj2), j * 3 + 2) >>

\* The outcome of a scan: res is "true", "false" or "IndexError"; segs lists
\* the segment tests made, in order; reads counts the index and vertex
\* elements read.
Outcome(res, segs, reads) == [res |-> res, segs |-> segs, reads |-> reads]

\* The reads of obj1's triangle i, made once before the loop over j.
Reads1(obj1, i, j) ==
  IF j = 0 THEN 3 + VertexReads(Shape(obj1)._vertices, Indices1(obj1, i))
  ELSE 0

\* The tests made of `six` when number n is its first positive one.
UpTo(six, n) ==
  [hit |-> n # 0, segs |-> IF n = 0 THEN six ELSE SubSeq(six, 1, n)]
Tests(six) == UpTo(six, FirstHit(six))

\* The tests of triangle i of obj1 against triangle j of obj2, up to the
\* first positive one.
PairTests(obj1, obj2, i, j) ==
  Tests(SixTests(Triangle(Shape(obj1)._vertices, Indices1(obj1, i)),
                 Triangle(Shape(obj2)._vertices, Indices2(obj1, obj2, j))))

\* _mesh_collision from triangle i of obj1 and triangle j of obj2 onwards,
\* after the segment tests segs and after reads buffer reads.  MeshPair is
\* lines 108-129: return True at a positive test, else go on with the loop.
RECURSIVE MeshScan(_, _, _, _, _, _)
RECURSIVE MeshPair(_, _, _, _, _, _, _)
MeshPair(obj1, obj2, i, j, segs, reads, t) ==
  IF t.hit THEN Outcome("true", segs \o t.segs, reads)
  ELSE MeshScan(obj1, obj2, i, j + 1, segs \o t.segs, reads)

MeshScan(obj1, obj2, i, j, segs, reads) ==
  IF i >= Len(Shape(obj1)._indices) \div 3
    THEN Outcome("false", segs, reads)
  ELSE IF ~ TriangleOk(Shape(obj1)._vertices, Indices1(obj1, i))
    THEN Outcome("IndexError", segs, reads + Reads1(obj1, i, j))
  ELSE IF j >= Len(Shape(obj2)._indices) \div 3
    THEN MeshScan(obj1, obj2, i + 1, 0, segs, reads + Reads1(obj1, i, j))
  ELSE IF ~ InRange(ThirdIndexBuffer(obj1, obj2), j * 3 + 2)
    THEN Outcome("IndexError", segs, reads + Reads1(obj1, i, j) + 2)
  ELSE IF ~ TriangleOk(Shape(obj2)._vertices, Indices2(obj1, obj2, j))
    THEN Outcome("IndexError", segs,
                 reads + Reads1(obj1, i, j) + 3
                 + VertexReads(Shape(obj2)._vertices, Indices2(obj1, obj2, j)))
  ELSE MeshPair(obj1, obj2, i, j, segs, reads + Reads1(obj1, i, j) + 12,
                PairTests(obj1, obj2, i, j))

_mesh_collision(obj1, obj2) == MeshScan(obj1, obj2, 0, 0, << >>, 0)

Bool(b) == IF b THEN "true" ELSE "false"

\* What _test returns or raises, with what it evaluated on the way: phases
\* lists the helper calls made, segs and reads are those of the narrow phase.
Verdict(res, phases, m) ==
  [res |-> res, phases |-> phases, segs |-> m.segs, reads |-> m.reads]
NoMesh == Outcome("none", << >>, 0)
Narrow(m) == Verdict(m.res, << "bounding", "containment", "mesh" >>, m)

\* Variant: a negative broad phase does not end the classification.
TestWithoutReject(obj1, obj2) ==
  IF Shape(obj1).isSphere /\ Shape(obj2).isSphere
    THEN Verdict(Bool(_bounding_sphere_collision(obj1, obj2)),
                 << "bounding" >>, NoMesh)
  ELSE IF _sphere_in_sphere_collision(obj1, obj2)
    THEN Verdict("true", << "bounding", "containment" >>, NoMesh)
  ELSE Narrow(_mesh_collision(obj1, obj2))

\* Collision._test
_test(obj1, obj2) ==
  IF Shape(obj1).isSphere /\ Shape(obj2).isSphere
    THEN Verdict(Bool(_bounding_sphere_collision(obj1, obj2)),
                 << "bounding" >>, NoMesh)
  ELSE IF ~ _bounding_sphere_collision(obj1, obj2)
    THEN Verdict("false", << "bounding" >>, NoMesh)
  ELSE IF _sphere_in_sphere_collision(obj1, obj2)
    THEN Verdict("true", << "bounding", "containment" >>, NoMesh)
  ELSE Narrow(_mesh_collision(obj1, obj2))

\* ------------------------------------------------------------ the detector
NoVerdict == Verdict("none", << >>, NoMesh)
NoProbe == [obj1 |-> "none", obj2 |-> "none", done |-> FALSE,
            out |-> NoVerdict]

\* Collision.__init__: the roster and the callback are the caller's; the
\* pair cache starts empty.  A callback that is not callable is only logged.
Init ==
  /\ objects \in { << >> } \cup { << o >> : o \in Tracked }
  /\ callback \in BOOLEAN
  /\ _pairs = << >>
  /\ pos = [o \in Objs |-> 0]
  /\ last = "init"
  /\ streak = 0
  /\ raised = "none"
  /\ reported = << >>
  /\ tested = << >>
  /\ rearmed = {}
  /\ probe = NoProbe

\* Collision.add_object
add_object(obj) ==
  /\ Len(objects) < MaxRoster
  /\ objects' = Append(objects, obj)
  /\ last' = "add_object"
  /\ streak' = 0
  /\ raised' = "none"
  /\ reported' = << >>
  /\ tested' = << >>
  /\ UNCHANGED << _pairs, callback, pos, rearmed, probe >>

\* `x in s` and `s.remove(x)` of a Python list.
In(x, s) == \E n \in 1..Len(s) : s[n] = x
Without(s, n) == SubSeq(s, 1, n - 1) \o SubSeq(s, n + 1, Len(s))
Remove(s, x) == Without(s, Least({ n \in 1..Len(s) : s[n] = x }))

\* The pair cache after Collision.resolve(obj1, obj2).
Discard(ps, pair) == IF In(pair, ps) THEN Remove(ps, pair) ELSE ps

\* Variant: only the order the arguments are given in is looked up.
ResolvedOneOrder(ps, obj1, obj2) == Discard(ps, << obj1, obj2 >>)

Resolved(ps, obj1, obj2) ==
  Discard(Discard(ps, << obj1, obj2 >>), << obj2, obj1 >>)

\* Collision.resolve
resolve(obj1, obj2) ==
  /\ _pairs' = Resolved(_pairs, obj1, obj2)
  /\ rearmed' = IF In(<< obj1, obj2 >>, _pairs) \/ In(<< obj2, obj1 >>, _pairs)
                  THEN rearmed \cup { {obj1, obj2} }
                  ELSE rearmed
  /\ last' = "resolve"
  /\ streak' = 0
  /\ raised' = "none"
  /\ reported' = << >>
  /\ tested' = << >>
  /\ UNCHANGED << objects, callback, pos, probe >>

\* Variant: the inner loop stops one position early.
RECURSIVE VisitsShort(_, _, _)
VisitsShort(n, i, j) ==
  IF i >= n - 1 THEN << >>
  ELSE IF j >= n - i - 2 THEN VisitsShort(n, i + 1, 0)
  ELSE << << i, i + j + 1 >> >> \o VisitsShort(n, i, j + 1)

\* The roster positions (0-based) the two loops of check visit, in order.
RECURSIVE Visits(_, _, _)
Visits(n, i, j) ==
  IF i >= n - 1 THEN << >>
  ELSE IF j >= n - i - 1 THEN Visits(n, i + 1, 0)
  ELSE << << i, i + j + 1 >> >> \o Visits(n, i, j + 1)

\* Variants: the cache is not looked up; only one order is looked up.
SkippedNever(ps, obj1, obj2) == FALSE
SkippedOneOrder(ps, obj1, obj2) == In(<< obj1, obj2 >>, ps)

\* Whether check skips the pair (obj1, obj2) given the cache ps.
Skipped(ps, obj1, obj2) ==
  ~ ( ~ In(<< obj1, obj2 >>, ps) /\ ~ In(<< obj2, obj1 >>, ps) )

\* The loops of check from visit number k on: the cache they leave, the
\* _test calls they make, and the exception that ends them, if any.
\* Tested is lines 175-177: what follows the call res = _test(obj1, obj2).
Entry(obj1, obj2, res) == [obj1 |-> obj1, obj2 |-> obj2, res |-> res]

RECURSIVE Scan(_, _, _, _)
RECURSIVE Tested(_, _, _, _, _, _, _)

\* Variant: the pair is appended whatever _test returned.
TestedAppendsAlways(vs, k, ps, log, obj1, obj2, res) ==
  IF res = "IndexError"
    THEN [pairs |-> ps, log |-> Append(log, Entry(obj1, obj2, res)),
          exc |-> res]
  ELSE Scan(vs, k + 1, Append(ps, << obj1, obj2 >>),
            Append(log, Entry(obj1, obj2, res)))

Tested(vs, k, ps, log, obj1, obj2, res) ==
  IF res = "IndexError"
    THEN [pairs |-> ps, log |-> Append(log, Entry(obj1, obj2, res)),
          exc |-> res]
  ELSE IF res = "true"
    THEN Scan(vs, k + 1, Append(ps, << obj1, obj2 >>),
              Append(log, Entry(obj1, obj2, res)))
  ELSE Scan(vs, k + 1, ps, Append(log, Entry(obj1, obj2, res)))

Scan(vs, k, ps, log) ==
  IF k > Len(vs) THEN [pairs |-> ps, log |-> log, exc |-> "none"]
  ELSE IF Skipped(ps, At(objects, vs[k][1]), At(objects, vs[k][2]))
    THEN Scan(vs, k + 1, ps, log)
  ELSE Tested(vs, k, ps, log, At(objects, vs[k][1]), At(objects, vs[k][2]),
              _test(At(objects, vs[k][1]), At(objects, vs[k][2])).res)

\* The end of check: the callback is called (line 179) unless the loops
\* raised; calling a callback that is not callable raises TypeError.
Finish(run) ==
  /\ _pairs' = run.pairs
  /\ tested' = run.log
  /\ raised' = IF run.exc # "none" THEN run.exc
               ELSE IF ~ callback THEN "TypeError"
               ELSE "none"
  /\ reported' = IF run.exc = "none" /\ callback THEN << run.pairs >>
                 ELSE << >>

\* Collision.check
check ==
  /\ Finish(Scan(Visits(Len(objects), 0, 0), 1, _pairs, << >>))
  /\ rearmed' = {}
  /\ last' = "check"
  /\ streak' = IF streak = 0 THEN 1 ELSE 2
  /\ UNCHANGED << objects, callback, pos, probe >>

\* The scene moves an object between two passes (obj.set_position).
move(obj, x) ==
  /\ pos[obj] # x
  /\ pos' = [pos EXCEPT ![obj] = x]
  /\ last' = "move"
  /\ streak' = 0
  /\ raised' = "none"
  /\ reported' = << >>
  /\ tested' = << >>
  /\ UNCHANGED << objects, _pairs, callback, rearmed, probe >>

Track   == \E obj \in Tracked : add_object(obj)
Resolve == \E obj1 \in Tracked, obj2 \in Tracked : resolve(obj1, obj2)
Move    == \E obj \in Tracked : \E x \in Places(obj) : move(obj, x)

Next == Track \/ Resolve \/ check \/ Move

Spec == Init /\ [][Next]_vars

\* ------------------------------------------- classification on its own
\* Two objects, each placed anywhere on the axis, and one call of _test.
InitClassify ==
  /\ objects = << >>
  /\ callback = TRUE
  /\ _pairs = << >>
  /\ last = "init"
  /\ streak = 0
  /\ raised = "none"
  /\ reported = << >>
  /\ tested = << >>
  /\ rearmed = {}
  /\ \E obj1 \in Objs, obj2 \in Objs :
       /\ probe = [obj1 |-> obj1, obj2 |-> obj2, done |-> FALSE,
                   out |-> NoVerdict]
       /\ \E x \in 0..MaxCoord, y \in 0..MaxCoord :
            /\ obj1 = obj2 => x = y
            /\ pos = [o \in Objs |-> IF o = obj1 THEN x
                                     ELSE IF o = obj2 THEN y ELSE 0]

classify ==
  /\ ~ probe.done
  /\ probe' = [probe EXCEPT !.done = TRUE,
                            !.out = _test(probe.obj1, probe.obj2)]
  /\ UNCHANGED << objects, _pairs, callback, pos, last, streak, raised,
                  reported, tested, rearmed >>

NextClassify == classify

SpecClassify == InitClassify /\ [][NextClassify]_vars

\* ------------------------------------------------------ a ray cast on its own
\* Rays and spheres in the plane z = 0, as homogeneous points (w = 1) and
\* directions (w = 0); the directions include one that is not of unit
\* length.  Only casts whose measured length is an exact integer are made.
RayStarts == { << 0, 0, 0, 1 >>, << 1, 0, 0, 1 >> }
RayVectors == { << 1, 0, 0, 0 >>, << 0, 1, 0, 0 >>, << 0 - 1, 0, 0, 0 >>,
                << 2, 0, 0, 0 >> }
RayCenters == { << x, y, 0, 1 >> : x \in (0 - MaxRay)..MaxRay,
                                   y \in (0 - MaxRay)..MaxRay }
IsSquare(n) == \E d \in 0..n : d * d = n
ExactCast(start, vector, sphere_center) ==
  IsSquare(SquareSum(Sub4(
    combine(start, vector, 1,
            Clamp(point_project(sphere_center, start, vector))),
    sphere_center)))

NoRay == RayVerdict("none", 0, << >>)

InitRay ==
  /\ objects = << >>
  /\ callback = TRUE
  /\ _pairs = << >>
  /\ pos = [o \in Objs |-> 0]
  /\ last = "init"
  /\ streak = 0
  /\ raised = "none"
  /\ reported = << >>
  /\ tested = << >>
  /\ rearmed = {}
  /\ \E start \in RayStarts, vector \in RayVectors,
        sphere_center \in RayCenters, sphere_radius \in 0..MaxRay :
       /\ ExactCast(start, vector, sphere_center)
       /\ probe = [start |-> start, vector |-> vector,
                   sphere_center |-> sphere_center,
                   sphere_radius |-> sphere_radius,
                   done |-> FALSE, out |-> NoRay]

raycast ==
  /\ ~ probe.done
  /\ probe' = [probe EXCEPT
                 !.done = TRUE,
                 !.out = raycast_sphere_intersect(probe.start, probe.vector,
                           probe.sphere_center, probe.sphere_radius)]
  /\ UNCHANGED << objects, _pairs, callback, pos, last, streak, raised,
                  reported, tested, rearmed >>

NextRay == raycast

SpecRay == InitRay /\ [][NextRay]_vars

\* ------------------------------------------------------------- properties
Range(q) == { q[n] : n \in 1..Len(q) }

\* The unordered pairs of a pair list.
PairSet(ps) == { { p[1], p[2] } : p \in Range(ps) }

\* The unordered pairs of roster positions i < j whose classification, the
\* earlier object first, is positive in the current state.
PositiveNow ==
  { { objects[v[1]], objects[v[2]] } :
      v \in { w \in (1..Len(objects)) \X (1..Len(objects)) :
                /\ w[1] < w[2]
                /\ _test(objects[w[1]], objects[w[2]]).res = "true" } }

\* C1: every call of check, whose callback is callable, calls the callback
\* exactly once, after the loops, with the whole pair cache.
C1_CallbackOncePerPass ==
  (last = "check" /\ callback) => reported = << _pairs >>

\* C2, as claimed: the pair set a pass reports is the set of the roster
\* pairs that classification finds positive at the time of the pass.
C2_ReportIsPositiveNow ==
  (last = "check" /\ reported # << >>) => PairSet(reported[1]) = PositiveNow

\* C2, amended: the pair set a pass reports holds every roster pair that
\* classification finds positive at the time of the pass, and besides those
\* only pairs that were cached before the pass.
C2_ReportIsPositiveOrCached ==
  [][ (last' = "check" /\ reported' # << >>)
        => /\ PositiveNow \subseteq PairSet(reported'[1])
           /\ PairSet(reported'[1]) \subseteq PositiveNow \cup PairSet(_pairs)
    ]_vars

\* C2 witness: a pass has reported a pair that classification no longer
\* finds positive.
C2_StalePairReported ==
  /\ last = "check"
  /\ reported # << >>
  /\ \E p \in Range(reported[1]) : _test(p[1], p[2]).res = "false"

\* C3: a pass that directly follows a pass reports what that one reported,
\* leaves the cache as it is and finds no pair positive.
C3_SecondPassIdentical ==
  [][ (last = "check" /\ last' = "check")
        => /\ reported' = reported
           /\ _pairs' = _pairs
           /\ \A e \in Range(tested') : e.res # "true"
    ]_vars

\* C3 witness: two passes in a row, the second reporting a cached pair.
C3_TwoPassesInARow ==
  streak = 2 /\ reported # << >> /\ reported[1] # << >>

\* C4: the pass that follows the resolve of a cached pair classifies that
\* pair and caches it exactly if it found it positive, and classifies no
\* pair that was cached when the pass began.
C4_ResolveRearms ==
  [][ last' = "check"
        => /\ \A p \in rearmed :
                /\ p \in { { e.obj1, e.obj2 } : e \in Range(tested') }
                /\ p \in PairSet(_pairs')
                     <=> \E e \in Range(tested') :
                           { e.obj1, e.obj2 } = p /\ e.res = "true"
           /\ \A e \in Range(tested') :
                { e.obj1, e.obj2 } \notin PairSet(_pairs)
    ]_vars

\* The cache without the pair {obj1, obj2}, the other pairs kept in order.
Others(ps, obj1, obj2) ==
  LET keep == { n \in 1..Len(ps) : { ps[n][1], ps[n][2] } # { obj1, obj2 } }
      nth(k) == CHOOSE n \in keep : Cardinality({ m \in keep : m <= n }) = k
  IN  [k \in 1..Cardinality(keep) |-> ps[nth(k)]]

\* C5: resolve(obj1, obj2) leaves the cache without the pair {obj1, obj2},
\* in whichever order it was stored, every other pair kept; resolve(obj2,
\* obj1) does the same; the roster stays and the callback is not called.
C5_ResolveFrame ==
  [][ \A obj1 \in Tracked, obj2 \in Tracked :
        resolve(obj1, obj2)
          => /\ _pairs' = Others(_pairs, obj1, obj2)
             /\ _pairs' = Resolved(_pairs, obj2, obj1)
             /\ objects' = objects
             /\ reported' = << >>
             /\ raised' = "none"
    ]_vars

\* C5 witness: a resolve has taken a cached pair out and left another in.
C5_ResolvedOneOfTwo ==
  last = "resolve" /\ rearmed # {} /\ _pairs # << >>

\* C6: add_object leaves the cache alone; check keeps every cached pair
\* and appends only pairs that classification finds positive; resolve adds
\* no pair.
C6_CacheGrowth ==
  [][ /\ last' = "add_object" => _pairs' = _pairs
      /\ last' = "check"
           => /\ Len(_pairs') >= Len(_pairs)
              /\ SubSeq(_pairs', 1, Len(_pairs)) = _pairs
              /\ \A n \in (Len(_pairs) + 1)..Len(_pairs') :
                   _test(_pairs'[n][1], _pairs'[n][2]).res = "true"
      /\ last' = "resolve" => Range(_pairs') \subseteq Range(_pairs)
    ]_vars

\* C6 witness: a pass has classified a pair as negative and appended
\* another to a cache that held a pair already.
C6_PassAppended ==
  /\ last = "check"
  /\ Len(_pairs) >= 2
  /\ _pairs[Len(_pairs)] \in { << e.obj1, e.obj2 >> : e \in Range(tested) }
  /\ \E e \in Range(tested) : e.res = "false"

\* C7: no unordered pair is in the cache twice, in either order.
C7_PairAtMostOnce ==
  \A m \in 1..Len(_pairs), n \in 1..Len(_pairs) :
    m # n => { _pairs[m][1], _pairs[m][2] } # { _pairs[n][1], _pairs[n][2] }

\* C7 witness: an object is in the roster twice and a pass has skipped the
\* second occurrence of a pair it cached.
C7_DuplicateRosterCached ==
  /\ last = "check"
  /\ Len(objects) = 3
  /\ objects[1] = objects[3]
  /\ objects[1] # objects[2]
  /\ { objects[1], objects[2] } \in PairSet(_pairs)
  /\ raised = "none"

\* C8: _test(obj1, obj2) and _test(obj2, obj1) end the same way.
C8_Symmetry ==
  probe.done => probe.out.res = _test(probe.obj2, probe.obj1).res

\* C9: for two spheres _test returns whether the distance of the origins
\* is at most the sum of the radii, and evaluates nothing but the broad
\* phase.
C9_SphereShortcut ==
  (probe.done /\ Shape(probe.obj1).isSphere /\ Shape(probe.obj2).isSphere)
    => /\ probe.out.res
            = Bool(distance(Origin(probe.obj1), Origin(probe.obj2))
                     <= Shape(probe.obj1).bounding_radius
                          + Shape(probe.obj2).bounding_radius)
       /\ probe.out.phases = << "bounding" >>
       /\ probe.out.segs = << >>
       /\ probe.out.reads = 0

\* C9 witness: two distinct spheres that touch have been classified as
\* colliding.
C9_TouchingSpheres ==
  /\ probe.done
  /\ probe.obj1 = "S1" /\ probe.obj2 = "S2"
  /\ distance(Origin("S1"), Origin("S2")) = 3
  /\ probe.out.res = "true"

\* C10: when at least one object is a mesh and the origins are further
\* apart than the sum of the radii, _test returns false and evaluates
\* neither the containment test nor the meshes.
C10_NegativeBroadPhaseFinal ==
  ( /\ probe.done
    /\ ~ (Shape(probe.obj1).isSphere /\ Shape(probe.obj2).isSphere)
    /\ distance(Origin(probe.obj1), Origin(probe.obj2))
         > Shape(probe.obj1).bounding_radius
             + Shape(probe.obj2).bounding_radius )
    => /\ probe.out.res = "false"
       /\ probe.out.phases = << "bounding" >>
       /\ probe.out.segs = << >>
       /\ probe.out.reads = 0

\* C10 witness: two meshes further apart than their radii reach have been
\* classified.
C10_FarMeshes ==
  /\ probe.done
  /\ probe.obj1 = "M1" /\ probe.obj2 = "M2"
  /\ distance(Origin("M1"), Origin("M2")) = 7

\* C11: when at least one object is a mesh, the broad phase is positive and
\* one bounding sphere lies strictly inside the other (r1 > d + r2 or
\* r2 > d + r1), _test returns true after the containment test and makes
\* no segment test and no buffer read.
C11_ContainmentFinal ==
  ( /\ probe.done
    /\ ~ (Shape(probe.obj1).isSphere /\ Shape(probe.obj2).isSphere)
    /\ distance(Origin(probe.obj1), Origin(probe.obj2))
         <= Shape(probe.obj1).bounding_radius
              + Shape(probe.obj2).bounding_radius
    /\ \/ Shape(probe.obj1).bounding_radius
            > distance(Origin(probe.obj1), Origin(probe.obj2))
                + Shape(probe.obj2).bounding_radius
       \/ Shape(probe.obj2).bounding_radius
            > distance(Origin(probe.obj1), Origin(probe.obj2))
                + Shape(probe.obj1).bounding_radius )
    => /\ probe.out.res = "true"
       /\ probe.out.phases = << "bounding", "containment" >>
       /\ probe.out.segs = << >>
       /\ probe.out.reads = 0

\* C11 witness: the small mesh M3 (radius 1), one unit away from the
\* origin of the large mesh M1 (radius 3), has been classified against it,
\* the contained object given first.
C11_SmallInsideLarge ==
  /\ probe.done
  /\ probe.obj1 = "M3" /\ probe.obj2 = "M1"
  /\ distance(Origin("M3"), Origin("M1")) = 1
  /\ probe.out.res = "true"
  /\ probe.out.segs = << >>

\* A well-formed mesh: whole index triples, whole vertices, and every
\* vertex number within the object's own vertex buffer.
WellFormed(o) ==
  /\ Len(Shape(o)._indices) % 3 = 0
  /\ Len(Shape(o)._vertices) % 3 = 0
  /\ \A n \in 1..Len(Shape(o)._indices) :
       /\ Shape(o)._indices[n] >= 0
       /\ Shape(o)._indices[n] < Len(Shape(o)._vertices) \div 3

\* C12: for two well-formed objects, whatever their triangle and vertex
\* counts, _test ends with a boolean and raises nothing.
C12_WellFormedNeverRaises ==
  (probe.done /\ WellFormed(probe.obj1) /\ WellFormed(probe.obj2))
    => probe.out.res \in {"true", "false"}

\* C13: a detector whose callback is not callable never gets as far as a
\* check that calls _test, appends a pair to the cache and then fails on
\* calling the callback.
C13_NonCallableNeverRuns ==
  ~ ( /\ ~ callback
      /\ last = "check"
      /\ \E n \in 1..Len(tested) :
           /\ tested[n].res = "true"
           /\ In(<< tested[n].obj1, tested[n].obj2 >>, _pairs)
      /\ raised = "TypeError" )

\* The points of the ray at the parameters 0, 1, 2, ..., far enough to pass
\* every sphere, and the squared distance of two points as a sum of squares.
RayReach == 4 * (MaxRay + 1)
PointAt(start, vector, t) ==
  << start[1] + t * vector[1], start[2] + t * vector[2],
     start[3] + t * vector[3] >>
SqDist(a, b) ==
  (a[1] - b[1]) * (a[1] - b[1]) + (a[2] - b[2]) * (a[2] - b[2])
    + (a[3] - b[3]) * (a[3] - b[3])
Nearer(d) ==
  \E t \in 0..RayReach :
    SqDist(PointAt(probe.start, probe.vector, t), probe.sphere_center) < d
Tangent ==
  /\ ~ Nearer(probe.sphere_radius * probe.sphere_radius)
  /\ \E t \in 0..RayReach :
       SqDist(PointAt(probe.start, probe.vector, t), probe.sphere_center)
         = probe.sphere_radius * probe.sphere_radius

\* C14: raycast_sphere_intersect returns true only when some point of the
\* ray is at a squared distance from the centre strictly below radius^2,
\* so it returns false when the closest point is at exactly radius^2; for
\* a direction of unit length it returns true whenever a point is nearer.
C14_TangentIsMiss ==
  probe.done
    => /\ (probe.out.res = TRUE)
            => Nearer(probe.sphere_radius * probe.sphere_radius)
       /\ Tangent => probe.out.res = FALSE
       /\ (SquareSum(probe.vector) = 1
             /\ Nearer(probe.sphere_radius * probe.sphere_radius))
            => probe.out.res = TRUE

\* C14 witness: a ray has been cast past a sphere ahead of it that it just
\* touches, and the answer was false.
C14_TangentCast ==
  /\ probe.done
  /\ Tangent
  /\ probe.sphere_radius > 0
  /\ point_project(probe.sphere_center, probe.start, probe.vector) > 0
  /\ probe.out.res = FALSE

\* C15: when the projection of the centre onto the ray is negative, the
\* answer is that of the ray's start alone, true iff the start is at a
\* squared distance from the centre below radius^2, and the point measured
\* from is the start, at parameter 0.
C15_ProjectionClamp ==
  ( /\ probe.done
    /\ point_project(probe.sphere_center, probe.start, probe.vector) < 0 )
    => /\ probe.out.res
            = ( SqDist(probe.start, probe.sphere_center)
                  < probe.sphere_radius * probe.sphere_radius )
       /\ probe.out.proj = 0
       /\ probe.out.vc = probe.start

\* C15 witness: a ray has been cast away from a sphere behind it that does
\* not hold the ray's start, and the answer was false although the ray's
\* line passes through the sphere.
C15_SphereBehind ==
  /\ probe.done
  /\ point_project(probe.sphere_center, probe.start, probe.vector) < 0
  /\ probe.sphere_center[2] = probe.start[2]
  /\ probe.vector[2] = 0
  /\ probe.sphere_radius > 0
  /\ probe.out.res = FALSE

\* Triangle k of object o as its own buffers give it: the k-th index triple
\* of o looked up in o's vertex buffer.
Triangles(o) == 0..(Len(Shape(o)._indices) \div 3 - 1)
OwnTriangle(o, k) ==
  Triangle(Shape(o)._vertices,
           << At(Shape(o)._indices, k * 3), At(Shape(o)._indices, k * 3 + 1),
              At(Shape(o)._indices, k * 3 + 2) >>)
OwnTests(obj1, obj2) ==
  UNION { Range(SixTests(OwnTriangle(obj1, i), OwnTriangle(obj2, j))) :
            i \in Triangles(obj1), j \in Triangles(obj2) }

\* C16: when _test reaches the narrow phase, every segment test it makes
\* is one of the six tests of a triangle of obj1 against a triangle of
\* obj2, each taken from its own object's buffers; the result is true iff
\* one of these tests is positive, and a negative result has made all six
\* tests of every pair of triangles.
C16_EveryTrianglePair ==
  (probe.done /\ probe.out.phases = << "bounding", "containment", "mesh" >>)
    => /\ probe.out.res
            = Bool(\E t \in OwnTests(probe.obj1, probe.obj2) : Hit(t))
       /\ Range(probe.out.segs) \subseteq OwnTests(probe.obj1, probe.obj2)
       /\ probe.out.res = "false"
            => Len(probe.out.segs)
                 = 6 * Cardinality(Triangles(probe.obj1))
                     * Cardinality(Triangles(probe.obj2))

\* The pairs of roster positions i < j.
PositionPairs ==
  { w \in (1..Len(objects)) \X (1..Len(objects)) : w[1] < w[2] }

\* C17: a check classifies no pair that was cached before it, classifies
\* every other pair of roster positions (unless the check itself has just
\* cached that pair of objects), at most once per pair of positions,
\* appends the pairs it found positive, and so leaves every pair of roster
\* positions whose classification is positive in the cache (a check moves
\* nothing, so a pair is positive after it iff it was before it).
C17_EveryPairConsidered ==
  [][ last' = "check"
        => /\ \A n \in 1..Len(tested') :
                { tested'[n].obj1, tested'[n].obj2 } \notin PairSet(_pairs)
           /\ \A w \in PositionPairs :
                \/ { objects[w[1]], objects[w[2]] } \in PairSet(_pairs')
                \/ \E n \in 1..Len(tested') :
                     /\ tested'[n].obj1 = objects[w[1]]
                     /\ tested'[n].obj2 = objects[w[2]]
                     /\ tested'[n].res \in {"true", "false"}
           /\ Len(tested') <= Cardinality(PositionPairs)
           /\ \A n \in 1..Len(tested') :
                tested'[n].res = "true"
                  => In(<< tested'[n].obj1, tested'[n].obj2 >>, _pairs')
           /\ PositiveNow \subseteq PairSet(_pairs') ]_vars

\* Triangle tri of object o where the scene has placed it: each vertex
\* moved by the object's origin (the model's objects are not rotated).
Placed(o, tri) ==
  << << tri[1][1] + pos[o], tri[1][2], tri[1][3] >>,
     << tri[2][1] + pos[o], tri[2][2], tri[2][3] >>,
     << tri[3][1] + pos[o], tri[3][2], tri[3][3] >> >>
WorldTests(obj1, obj2) ==
  UNION { Range(SixTests(Placed(obj1, OwnTriangle(obj1, i)),
                         Placed(obj2, OwnTriangle(obj2, j)))) :
            i \in Triangles(obj1), j \in Triangles(obj2) }

\* C18: when _test reaches the narrow phase, it returns true iff a triangle
\* of obj1 and a triangle of obj2, each placed at its object's position in
\* the world, intersect.
C18_FollowsWorldPlacement ==
  (probe.done /\ probe.out.phases = << "bounding", "containment", "mesh" >>)
    => probe.out.res
         = Bool(\E t \in WorldTests(probe.obj1, probe.obj2) : Hit(t))

====
